---- MODULE Spec2Model ----
(***************************************************************************)
(* queryFy backend: the query routes (POST /api/query, POST                *)
(* /api/query/batch), the recommended-questions route and the Gemini       *)
(* service they call (processQueryWithGemini: prompt, retry on overload,   *)
(* response parsing; generateRecommendedQuestions).                        *)
(*                                                                         *)
(* A JavaScript string is a sequence of text chunks (TLA+ strings): a      *)
(* question or a document text is a sequence of one-character chunks, a    *)
(* provider output is a sequence of the chunks the cleaning regex and      *)
(* JSON.parse tell apart.  A number is kept in hundredths (0.7 is 70).     *)
(***************************************************************************)
EXTENDS Integers, Sequences, FiniteSets, TLC

\* ------------------------------------------------------------ bounds
\* longest provider output, in chunks, the parsing runs enumerate
MaxRawLen == 3
\* longest batch whose questions are mixed freely
MaxMixedBatch == 2
\* number of requests in flight at once in the concurrent runs
MaxRequests == 2
\* how far below and above the prompt budget the long document texts reach
MaxOver == 2

\* ------------------------------------------------- program constants
\* let retries = 3
RetryBudget == 3
\* setTimeout(resolve, 2000)
BackoffMs == 2000
\* documentText.substring(0, 2000)
PromptBudget == 2000
\* queries.length > 10
MaxQueries == 10
\* query.trim().length < 3
MinQueryLen == 3
\* confidence: 0.7, in hundredths
DefaultConfidence == 70
\* Math.ceil(text.length / 4)
CharsPerToken == 4
\* Date.now() - (Date.now() - 1000)
OverloadReportedMs == 1000

\* ------------------------------------------------------- JS values
Undefined == [t |-> "undefined", n |-> 0, s |-> <<>>]
Null == [t |-> "null", n |-> 0, s |-> <<>>]
Bool(b) == [t |-> "boolean", n |-> IF b THEN 1 ELSE 0, s |-> <<>>]
Num(n) == [t |-> "number", n |-> n, s |-> <<>>]
Str(s) == [t |-> "string", n |-> 0, s |-> s]
\* an array: s holds its elements, JS values themselves
List(items) == [t |-> "array", n |-> 0, s |-> items]

\* ToBoolean: what (v || d) and (!v) test
Truthy(v) ==
  CASE v.t = "undefined" -> FALSE
    [] v.t = "null" -> FALSE
    [] v.t = "boolean" -> v.n = 1
    [] v.t = "number" -> v.n # 0
    [] v.t = "string" -> v.s # <<>>
    [] v.t = "array" -> TRUE

\* a || b
Or(a, b) == IF Truthy(a) THEN a ELSE b

Min(a, b) == IF a < b THEN a ELSE b
Max(a, b) == IF a > b THEN a ELSE b

\* ------------------------------------------------------- JS strings
Whitespace == {" ", "\n"}

RECURSIVE TrimStart(_)
TrimStart(s) ==
  IF s # <<>> /\ Head(s) \in Whitespace THEN TrimStart(Tail(s)) ELSE s

RECURSIVE TrimEnd(_)
TrimEnd(s) ==
  IF s # <<>> /\ s[Len(s)] \in Whitespace
  THEN TrimEnd(SubSeq(s, 1, Len(s) - 1))
  ELSE s

\* String.prototype.trim
Trim(s) == TrimEnd(TrimStart(s))

\* String.prototype.includes, for a word that is one chunk of the text
Includes(s, w) == \E i \in 1..Len(s) : s[i] = w

\* String.prototype.substring(0, n)
Substring0(s, n) == SubSeq(s, 1, Min(n, Len(s)))

\* String.prototype.length: the characters of all chunks, summed by halves so
\* that a text of thousands of chunks does not nest as deep as it is long
RECURSIVE Length(_)
Length(s) ==
  IF s = <<>> THEN 0
  ELSE IF Len(s) = 1 THEN Len(s[1])
  ELSE LET half == Len(s) \div 2
       IN  Length(SubSeq(s, 1, half)) + Length(SubSeq(s, half + 1, Len(s)))

\* The code fence (three backquotes) is the chunk Fence: a TLA+ string cannot
\* hold a backquote, so a three-character stand-in keeps its length.
Fence == "~~~"

\* responseText.replace(/<fence>json\n?|\n?<fence>/g, ''): leftmost match
\* first, the first alternative before the second
RECURSIVE StripFences(_)
StripFences(s) ==
  IF s = <<>> THEN <<>>
  ELSE IF Len(s) >= 2 /\ s[1] = Fence /\ s[2] = "json"
    THEN IF Len(s) >= 3 /\ s[3] = "\n"
         THEN StripFences(SubSeq(s, 4, Len(s)))
         ELSE StripFences(SubSeq(s, 3, Len(s)))
  ELSE IF Len(s) >= 2 /\ s[1] = "\n" /\ s[2] = Fence
    THEN StripFences(SubSeq(s, 3, Len(s)))
  ELSE IF s[1] = Fence
    THEN StripFences(Tail(s))
  ELSE <<s[1]>> \o StripFences(Tail(s))

\* ------------------------------------------------ provider outputs
\* The chunk of a provider output that is a complete JSON text.
JsonChunk == "<json>"

\* The chunks a provider output is made of; "text" is prose that is no JSON.
RawChunks == {Fence, "json", "\n", " ", "text", JsonChunk}

NoFields ==
  [answer |-> Undefined, canAnswer |-> Undefined,
   confidence |-> Undefined, reasoning |-> Undefined]

\* What JSON.parse returns: k is the kind of value, v a primitive's value, f the
\* four properties of an object the code reads (Undefined: not present).
Decoded(k, v, f) == [k |-> k, v |-> v, f |-> f]
NoJson == Decoded("none", Undefined, NoFields)

AnswerVals == {Undefined, Null, Str(<<>>), Str(<<"Blue">>)}
CanAnswerVals == {Undefined, Null, Bool(TRUE), Bool(FALSE)}
ConfidenceVals == {Undefined, Num(0), Num(95), Num(150), Num(-20), Str(<<"high">>)}
ReasoningVals == {Undefined, Str(<<>>), Str(<<"stated directly">>)}

JsonObjects ==
  { Decoded("object", Undefined,
            [answer |-> a, canAnswer |-> c, confidence |-> p, reasoning |-> g]) :
      a \in AnswerVals, c \in CanAnswerVals, p \in ConfidenceVals,
      g \in ReasoningVals }

JsonNonObjects ==
  { Decoded("null", Null, NoFields),
    Decoded("number", Num(500), NoFields),
    Decoded("boolean", Bool(TRUE), NoFields),
    Decoded("string", Str(<<"Blue">>), NoFields),
    Decoded("array", Undefined, NoFields) }

JsonValues == JsonObjects \cup JsonNonObjects

\* a well-formed answer in the format the prompt asks for
BlueJson ==
  Decoded("object", Undefined,
          [answer |-> Str(<<"Blue">>), canAnswer |-> Bool(TRUE),
           confidence |-> Num(95), reasoning |-> Str(<<"stated directly">>)])

\* A provider output: its text in chunks, and what its JsonChunk decodes to.
Raw(text, json) ==
  [text |-> text, json |-> IF Includes(text, JsonChunk) THEN json ELSE NoJson]

\* all chunk sequences of length <= n with at most one JsonChunk
RECURSIVE ChunkSeqs(_)
ChunkSeqs(n) ==
  IF n = 0 THEN {<<>>}
  ELSE LET shorter == ChunkSeqs(n - 1)
       IN  shorter \cup
           { Append(s, c) : s \in {q \in shorter : Len(q) = n - 1},
                            c \in RawChunks }

OneJson(s) == Cardinality({i \in 1..Len(s) : s[i] = JsonChunk}) <= 1

Wrappings == {s \in ChunkSeqs(MaxRawLen) : OneJson(s)}

PlainWrappings ==
  { <<JsonChunk>>, <<Fence, "json", "\n", JsonChunk, "\n", Fence>>, <<"text">> }

FewJson == {BlueJson, Decoded("null", Null, NoFields)}

\* every wrapping around a few JSON texts, every JSON text in a few wrappings
ParseOutputs ==
  {Raw(w, j) : w \in Wrappings, j \in FewJson} \cup
  {Raw(w, j) : w \in PlainWrappings, j \in JsonValues}

\* ----------------------------------------------------- JSON lengths
Digits(n) == IF n < 10 THEN 1 ELSE IF n < 100 THEN 2 ELSE 3

\* the length of a number written in decimal, from its hundredths
NumberLength(h) ==
  LET a == IF h < 0 THEN -h ELSE h
      frac == a % 100
  IN  (IF h < 0 THEN 1 ELSE 0) + Digits(a \div 100) +
      (IF frac = 0 THEN 0 ELSE IF frac % 10 = 0 THEN 2 ELSE 3)

ValueLength(v) ==
  CASE v.t = "undefined" -> 0
    [] v.t = "null" -> 4
    [] v.t = "boolean" -> IF v.n = 1 THEN 4 ELSE 5
    [] v.t = "number" -> NumberLength(v.n)
    [] v.t = "string" -> Length(v.s) + 2

FieldNames == {"answer", "canAnswer", "confidence", "reasoning"}

\* "name":value
MemberLength(f, name) ==
  IF f[name] = Undefined THEN 0 ELSE Len(name) + 3 + ValueLength(f[name])

\* the length of the compact JSON text that decodes to j
JsonLength(j) ==
  CASE j.k = "object" ->
         LET present == {name \in FieldNames : j.f[name] # Undefined}
         IN  2 + MemberLength(j.f, "answer") + MemberLength(j.f, "canAnswer") +
             MemberLength(j.f, "confidence") + MemberLength(j.f, "reasoning") +
             (IF present = {} THEN 0 ELSE Cardinality(present) - 1)
    [] j.k = "array" -> 2
    [] j.k = "none" -> 0
    [] OTHER -> ValueLength(j.v)

\* responseText.length
RawLength(raw) ==
  LET n == Cardinality({i \in 1..Len(raw.text) : raw.text[i] = JsonChunk})
  IN  Length(raw.text) - n * Len(JsonChunk) + n * JsonLength(raw.json)

\* ------------------------------------------- services/geminiService
PromptHead == "Document: "
PromptQuestion == "\n\nQuestion: "
PromptTail == "\n\nAnswer this question based on the document content. Respond in JSON format:\n{\"answer\": \"your answer\", \"canAnswer\": true/false, \"confidence\": 0.0-1.0, \"reasoning\": \"brief explanation\"}"

\* the prompt with the ellipsis already at 2000 characters
BuildPrompt_EllipsisAtBudget(documentText, userQuery) ==
  <<PromptHead>> \o Substring0(documentText, PromptBudget) \o
  (IF Len(documentText) >= PromptBudget THEN <<"...">> ELSE <<>>) \o
  <<PromptQuestion>> \o userQuery \o <<PromptTail>>

\* the prompt template of processQueryWithGemini
BuildPrompt(documentText, userQuery) ==
  <<PromptHead>> \o Substring0(documentText, PromptBudget) \o
  (IF Len(documentText) > PromptBudget THEN <<"...">> ELSE <<>>) \o
  <<PromptQuestion>> \o userQuery \o <<PromptTail>>

\* Math.ceil(n / 4) for the n characters of a text
estimateTokens(n) == (n + CharsPerToken - 1) \div CharsPerToken

\* JSON.parse of a cleaned text: a value when the text is one JSON text,
\* a SyntaxError otherwise
JSONparse(cleaned, json) ==
  IF cleaned = <<JsonChunk>>
  THEN [ok |-> TRUE, value |-> json]
  ELSE [ok |-> FALSE, value |-> NoJson]

NotJsonNote == <<"Response generated but not in expected JSON format">>
CompletedNote == <<"Analysis completed">>

\* the fallback built from the cleaned text instead of the raw output
parsedResponse_CleanedFallback(responseText) ==
  LET cleanedText == Trim(StripFences(responseText.text))
      parsed == JSONparse(cleanedText, responseText.json)
  IN  IF parsed.ok
      THEN parsed.value
      ELSE Decoded("object", Undefined,
                   [answer |-> Str(cleanedText),
                    canAnswer |-> Bool(TRUE),
                    confidence |-> Num(DefaultConfidence),
                    reasoning |-> Str(NotJsonNote)])

\* the try/catch around JSON.parse: the decoded value, or the fallback object
parsedResponse(responseText) ==
  LET cleanedText == Trim(StripFences(responseText.text))
      parsed == JSONparse(cleanedText, responseText.json)
  IN  IF parsed.ok
      THEN parsed.value
      ELSE Decoded("object", Undefined,
                   [answer |-> Str(responseText.text),
                    canAnswer |-> Bool(TRUE),
                    confidence |-> Num(DefaultConfidence),
                    reasoning |-> Str(NotJsonNote)])

\* "Ensure required fields exist": four assignments to parsedResponse.
\* On null the first one throws a TypeError; on a number, a boolean or a string
\* (sloppy mode) they are ignored; on an object or an array they take effect.
EnsureFields(p, responseText) ==
  IF p.k \in {"object", "array"}
  THEN [answer |-> Or(p.f.answer, Str(responseText.text)),
        canAnswer |-> IF p.f.canAnswer # Undefined THEN p.f.canAnswer
                      ELSE Bool(TRUE),
        confidence |-> Or(p.f.confidence, Num(DefaultConfidence)),
        reasoning |-> Or(p.f.reasoning, Str(CompletedNote))]
  ELSE p.f

NullTypeError == <<"Cannot read properties of null (reading 'answer')">>

\* What a call of processQueryWithGemini settles to: a returned object
\* (the four answer fields, processingTime, tokensUsed) or a thrown error.
Returned(f, processingTime, tokensUsed) ==
  [threw |-> FALSE, message |-> <<>>,
   answer |-> f.answer, canAnswer |-> f.canAnswer,
   confidence |-> f.confidence, reasoning |-> f.reasoning,
   processingTime |-> processingTime, tokensUsed |-> tokensUsed]

Thrown(message) ==
  [threw |-> TRUE, message |-> message,
   answer |-> Undefined, canAnswer |-> Undefined,
   confidence |-> Undefined, reasoning |-> Undefined,
   processingTime |-> 0, tokensUsed |-> 0]

NotSettled == Thrown(<<>>)

OverloadApology1 == "I apologize, but the AI service is currently overloaded. However, I can see that you're asking: \""
OverloadApology2 == "\". Please try again in a few moments, or try rephrasing your question. The document appears to contain relevant information that I could analyze once the service is available."
OverloadNote == <<"Gemini", " API is temporarily overloaded">>

\* the fallback response of the outer catch
OverloadedResponse(userQuery) ==
  Returned([answer |-> Str(<<OverloadApology1>> \o userQuery \o <<OverloadApology2>>),
            canAnswer |-> Bool(FALSE),
            confidence |-> Num(0),
            reasoning |-> Str(OverloadNote)],
           OverloadReportedMs, 0)

InvalidKeyError == <<"Invalid ", "Gemini", " API key. Please check your configuration.">>
QuotaError == <<"Gemini", " API ", "quota", " exceeded. Please try again later.">>
SafetyError == <<"Content was blocked by ", "Gemini", " safety filters. Please try a different query.">>
ProcessingFailed(message) == <<"Gemini", " processing failed: ">> \o message

\* the outer catch without its overload branch
CatchGemini_NoFallback(message, userQuery) ==
  IF Includes(message, "API_KEY") THEN Thrown(InvalidKeyError)
  ELSE IF Includes(message, "quota") THEN Thrown(QuotaError)
  ELSE IF Includes(message, "SAFETY") THEN Thrown(SafetyError)
  ELSE Thrown(ProcessingFailed(message))

\* the outer catch of processQueryWithGemini
CatchGemini(message, userQuery) ==
  IF Includes(message, "API_KEY") THEN Thrown(InvalidKeyError)
  ELSE IF Includes(message, "quota") THEN Thrown(QuotaError)
  ELSE IF Includes(message, "SAFETY") THEN Thrown(SafetyError)
  ELSE IF Includes(message, "overloaded") THEN OverloadedResponse(userQuery)
  ELSE Thrown(ProcessingFailed(message))

\* from a provider output to the end of the try block
AfterGenerate(prompt, responseText, processingTime, userQuery) ==
  LET p == parsedResponse(responseText)
  IN  IF p.k = "null"
      THEN CatchGemini(NullTypeError, userQuery)
      ELSE Returned(EnsureFields(p, responseText), processingTime,
                    estimateTokens(Length(prompt) + RawLength(responseText)))

\* the retry test giving up one attempt early
ShouldRetry_OneShort(message, retries) ==
  Includes(message, "overloaded") /\ retries > 2

\* the retry test without the test of the attempts left
ShouldRetry_LastToo(message, retries) == Includes(message, "overloaded")

\* the retry test without the test of the message
ShouldRetry_AnyError(message, retries) == retries > 1

\* the catch of the retry loop: wait and retry, or rethrow
ShouldRetry(message, retries) == Includes(message, "overloaded") /\ retries > 1

\* ----------------------------------- generateRecommendedQuestions
\* the list returned by the || of the inner try, by its catch and by the
\* outer catch
DefaultQuestions ==
  List(<<Str(<<"What is the main topic of this document?">>),
         Str(<<"Can you summarize the key points?">>),
         Str(<<"What are the most important findings?">>)>>)

\* the questions the provider may write
AskedQ(k) == Str(<<"Why is the sky blue?">> \o [j \in 1..k |-> "?"])

\* the values the `questions` property of an output may have (Undefined: the
\* object has no such property)
QuestionsVals ==
  { Undefined, Null, Str(<<>>), Str(<<"Why is the sky blue?">>), Num(300),
    List(<<>>), List(<<Num(100), Null>>) } \cup
  { List([k \in 1..n |-> AskedQ(k)]) : n \in 1..4 }

\* the JSON texts an output of the questions prompt may hold
QuestionsJson ==
  { Decoded("object", Undefined, [questions |-> v]) : v \in QuestionsVals } \cup
  { Decoded("null", Null, [questions |-> Undefined]),
    Decoded("number", Num(500), [questions |-> Undefined]),
    Decoded("string", Str(<<"Blue">>), [questions |-> Undefined]),
    Decoded("array", Undefined, [questions |-> Undefined]) }

\* a well-formed answer in the format the questions prompt asks for
ThreeQuestionsOutput ==
  Raw(<<JsonChunk>>,
      Decoded("object", Undefined,
              [questions |-> List([k \in 1..3 |-> AskedQ(k)])]))

\* the outputs the provider may give to the questions prompt
QuestionsOutputs ==
  {Raw(w, j) : w \in PlainWrappings \cup {<<JsonChunk, "text">>, <<>>},
               j \in QuestionsJson}

\* the inner try returning parsed.questions as it is, without the || default
recommendedQuestions_NoDefault(responseText) ==
  LET cleanedText == Trim(StripFences(responseText.text))
      parsed == JSONparse(cleanedText, responseText.json)
  IN  IF parsed.ok /\ parsed.value.k # "null"
      THEN parsed.value.f.questions
      ELSE DefaultQuestions

\* From a provider output to the return of generateRecommendedQuestions: the
\* inner try. JSON.parse throwing, and parsed.questions throwing on null, both
\* end in the inner catch.
recommendedQuestions(responseText) ==
  LET cleanedText == Trim(StripFences(responseText.text))
      parsed == JSONparse(cleanedText, responseText.json)
  IN  IF parsed.ok /\ parsed.value.k # "null"
      THEN Or(parsed.value.f.questions, DefaultQuestions)
      ELSE DefaultQuestions

\* the messages of the errors the provider raises, one per class of failure
OverloadedMsg == <<"[503 Service Unavailable] The model is ", "overloaded", ". Please try again later.">>
ApiKeyMsg == <<"[400 Bad Request] API key not valid. [reason: ", "API_KEY", "_INVALID]">>
QuotaMsg == <<"[429 Too Many Requests] You exceeded your current ", "quota">>
SafetyMsg == <<"Candidate was blocked due to ", "SAFETY">>
OtherMsg == <<"fetch failed">>
ProviderErrors == {OverloadedMsg, ApiKeyMsg, QuotaMsg, SafetyMsg, OtherMsg}

MissingKeyMsg == <<"GEMINI_", "API_KEY", " is not set in environment variables">>

\* ----------------------------------------------------- the stores
\* text as a string of one-character chunks
SkyText == <<"s", "k", "y">>
BlankText == <<" ", "\n">>

Doc(id, name, text) == [_id |-> id, originalName |-> name, extractedText |-> text]
NoDocument == Doc("", "", <<>>)

\* a text of n characters: its first differs from the others, and so do those
\* beyond the 2000th
LongText(n) ==
  [j \in 1..n |-> IF j = 1 THEN "a" ELSE IF j <= PromptBudget THEN "x" ELSE "y"]

\* the lengths around the prompt budget
LongLengths == (PromptBudget - MaxOver)..(PromptBudget + MaxOver)

\* the documents with a long text, each under its length as id
LongDocuments == { Doc(ToString(n), "long.txt", LongText(n)) : n \in LongLengths }

\* the Document collection: the upload routes are not part of this model
Documents ==
  { Doc("doc-sky", "sky.txt", SkyText),
    Doc("doc-blank", "scan.pdf", BlankText),
    Doc("doc-empty", "empty.pdf", <<>>) } \cup LongDocuments

\* ids that are well-formed ObjectIds; findById rejects any other with a CastError
ObjectIds ==
  {"doc-sky", "doc-blank", "doc-empty", "doc-gone"} \cup
  {d._id : d \in LongDocuments}
DocumentIds == {"doc-sky", "doc-blank", "doc-empty", "doc-gone", "not-an-id"}

CastErrorMsg == <<"Cast to ObjectId failed for value \"not-an-id\" at path \"_id\"">>

\* Document.findById: [threw, message, found, document]
findById(id) ==
  IF id \notin ObjectIds
  THEN [threw |-> TRUE, message |-> CastErrorMsg, found |-> FALSE, document |-> NoDocument]
  ELSE IF \E d \in Documents : d._id = id
  THEN [threw |-> FALSE, message |-> <<>>, found |-> TRUE,
        document |-> CHOOSE d \in Documents : d._id = id]
  ELSE [threw |-> FALSE, message |-> <<>>, found |-> FALSE, document |-> NoDocument]

\* new Query({...}): the record handed to save()
NewQuery(id, documentId, queryText, response, confidence, processingTime, createdAt) ==
  [_id |-> id, documentId |-> documentId, queryText |-> queryText,
   response |-> response, confidence |-> confidence,
   processingTime |-> processingTime, createdAt |-> createdAt]

NoRecord == NewQuery(<<0, 0>>, "", <<>>, Undefined, Undefined, 0, 0)

\* querySchema: queryText and response required strings, confidence a Number
\* with min 0 and max 1
SchemaValid(rec) ==
  /\ rec.queryText # <<>>
  /\ rec.response.t = "string" /\ rec.response.s # <<>>
  /\ rec.confidence.t = "number"
  /\ rec.confidence.n >= 0 /\ rec.confidence.n <= 100

ValidationErrorMsg == <<"Query validation failed">>

\* the questions a request may carry
WhyQ == <<"w", "h", "y">>
ShortQ == <<"a", "b">>
PaddedShortQ == <<" ", "a", "b", " ">>
Questions == {<<>>, ShortQ, PaddedShortQ, WhyQ}
BatchQuestions == {ShortQ, WhyQ}
\* a question longer than the prompt budget
LongQ == [j \in 1..(PromptBudget + MaxOver) |-> IF j = 1 THEN "w" ELSE "?"]

\* ------------------------------------------------------- the state
VARIABLES
  req,       \* per request: its body, where its handler stands, its locals
  Query,     \* the Query collection: the records saved so far
  model,     \* geminiService's module variable `model`
  now,       \* Date.now(), in ms
  env,       \* process.env: whether GEMINI_API_KEY is set
  provider,  \* which Gemini API stands behind the service in this run
  db         \* what MongoDB may answer to save(): the errors it may raise

vars == <<req, Query, model, now, env, provider, db>>

Requests == 1..MaxRequests

\* req.body of the two routes: query is a JS value, queries is nothing, a
\* string or an array of strings
Body(documentId, query, queries) ==
  [documentId |-> documentId, query |-> query, queries |-> queries]
NoQueries == [t |-> "undefined", items |-> <<>>]
NotAnArray == [t |-> "string", items |-> <<>>]
Array(items) == [t |-> "array", items |-> items]

\* res.status(...).json(...)
Response(status, error, message, query, results) ==
  [status |-> status, error |-> error, message |-> message,
   query |-> query, results |-> results]
NoPayload ==
  [id |-> <<0, 0>>, documentName |-> "", queryText |-> <<>>, answer |-> Undefined,
   canAnswer |-> Undefined, confidence |-> Undefined, reasoning |-> Undefined,
   processingTime |-> 0, tokensUsed |-> 0, createdAt |-> 0]
NoResponse == Response(0, "", <<>>, NoPayload, <<>>)
Fail(status, error, message) == Response(status, error, message, NoPayload, <<>>)

NoRaw == Raw(<<>>, NoJson)

\* The locals of one call of processQueryWithGemini. attempts, errors and waits
\* record what the call did: the model.generateContent calls issued, the
\* messages of those that failed, the backoff waits completed. prompt is empty
\* in a call that threw before building it.
Call(documentText, userQuery, startTime, attempts) ==
  [documentText |-> documentText, userQuery |-> userQuery,
   startTime |-> startTime, retries |-> RetryBudget,
   prompt |-> IF attempts = 0 THEN <<>> ELSE BuildPrompt(documentText, userQuery),
   responseText |-> NoRaw, due |-> 0,
   attempts |-> attempts, errors |-> <<>>, waits |-> 0]
NoCall == Call(<<>>, <<>>, 0, 0)

\* the locals of one call of generateRecommendedQuestions: the output it
\* received, the messages of the errors it caught
NoAsk == [responseText |-> NoRaw, errors |-> <<>>]

\* pc: "idle" (not yet received), "findById", "generate" (a provider call is
\* in flight), "backoff", "settled" (processQueryWithGemini has returned or
\* thrown), "save", "questions" (the provider call of
\* generateRecommendedQuestions is in flight), "done" (the response is sent).
\* calls counts the provider calls of the request, built the records it has
\* constructed; history keeps, per settled call of processQueryWithGemini, its
\* locals and what it settled to; g and gr are the locals of the call of
\* processQueryWithGemini and of generateRecommendedQuestions in progress.
Request(route, body) ==
  [route |-> route, body |-> body, pc |-> "idle",
   document |-> NoDocument, startTime |-> 0, i |-> 0,
   g |-> NoCall, aiResponse |-> NotSettled, queryRecord |-> NoRecord,
   results |-> <<>>, gr |-> NoAsk, questions |-> Undefined, res |-> NoResponse,
   calls |-> 0, built |-> 0, history |-> <<>>]

Unused == [Request("none", Body("", Undefined, NoQueries)) EXCEPT !.pc = "unused"]

Set(r, rq) == req' = [req EXCEPT ![r] = rq]

\* what the Gemini API may do in a run
Provider(outputs, errors, latencies) ==
  [outputs |-> outputs, errors |-> errors, latencies |-> latencies]

BlueOutput == Raw(<<JsonChunk>>, BlueJson)
FencedBlueOutput == Raw(<<Fence, "json", "\n", JsonChunk, "\n", Fence>>, BlueJson)
ProseOutput == Raw(<<"text">>, NoJson)

FullProvider == Provider({FencedBlueOutput, ProseOutput}, ProviderErrors, {0})
SmallProvider == Provider({BlueOutput}, {OverloadedMsg, ApiKeyMsg}, {0})
ParseProvider == Provider(ParseOutputs, {OverloadedMsg}, {0})
BatchProvider == Provider({BlueOutput}, {ApiKeyMsg}, {0})
BusyProvider == Provider({BlueOutput}, {OverloadedMsg}, {0})

\* the Gemini API of a run, by name
Gemini(name) ==
  CASE name = "full" -> FullProvider
    [] name = "small" -> SmallProvider
    [] name = "parse" -> ParseProvider
    [] name = "batch" -> BatchProvider
    [] name = "busy" -> BusyProvider

\* what the Gemini API of a run may answer to the questions prompt
GeminiQuestions(name) ==
  IF name = "parse" THEN QuestionsOutputs ELSE {ThreeQuestionsOutput}

\* ------------------------------------------- processQueryWithGemini
\* the entry with `retries` kept in the module and shared: an invocation gets
\* what the invocations in progress have left of the 3 attempts
Enter_SharedRetries(rq, documentText, userQuery) ==
  LET used == Cardinality({<<q, a>> \in Requests \X (1..RetryBudget) :
                             /\ req[q].pc \in {"generate", "backoff"}
                             /\ a <= req[q].g.attempts})
  IN  IF model = "unset" /\ ~env.GEMINI_API_KEY
      THEN [rq EXCEPT !.pc = "settled",
                      !.g = Call(documentText, userQuery, 0, 0),
                      !.aiResponse = CatchGemini(MissingKeyMsg, userQuery),
                      !.history = Append(@, [g |-> Call(documentText, userQuery, 0, 0),
                                             aiResponse |-> CatchGemini(MissingKeyMsg, userQuery)])]
      ELSE [rq EXCEPT !.pc = "generate",
                      !.g = [Call(documentText, userQuery, now, 1)
                               EXCEPT !.retries = Max(1, RetryBudget - used)],
                      !.aiResponse = NotSettled,
                      !.calls = @ + 1]

\* Entry of processQueryWithGemini up to the first await: initializeGemini
\* when `model` is unset (it throws without a key), startTime, prompt,
\* retries = 3 and the first model.generateContent(prompt).
Enter(rq, documentText, userQuery) ==
  IF model = "unset" /\ ~env.GEMINI_API_KEY
  THEN [rq EXCEPT !.pc = "settled",
                  !.g = Call(documentText, userQuery, 0, 0),
                  !.aiResponse = CatchGemini(MissingKeyMsg, userQuery),
                  !.history = Append(@, [g |-> Call(documentText, userQuery, 0, 0),
                                         aiResponse |-> CatchGemini(MissingKeyMsg, userQuery)])]
  ELSE [rq EXCEPT !.pc = "generate",
                  !.g = Call(documentText, userQuery, now, 1),
                  !.aiResponse = NotSettled,
                  !.calls = @ + 1]

\* if (!model) initializeGemini(), when processQueryWithGemini is called
initializeGemini(called) ==
  model' = IF called /\ model = "unset" /\ env.GEMINI_API_KEY
           THEN "gemini-1.5-flash"
           ELSE model

\* processQueryWithGemini returns or throws
Settle(rq, g, aiResponse) ==
  [rq EXCEPT !.pc = "settled", !.g = g, !.aiResponse = aiResponse,
             !.history = Append(@, [g |-> g, aiResponse |-> aiResponse])]

\* model.generateContent resolves and response.text() returns: leave the retry
\* loop, measure, parse, return
GenerateSucceeds(r) ==
  /\ req[r].pc = "generate"
  /\ \E responseText \in Gemini(provider).outputs, d \in Gemini(provider).latencies :
       LET rq == req[r]
           prompt == BuildPrompt(rq.g.documentText, rq.g.userQuery)
           processingTime == (now + d) - rq.g.startTime
       IN  /\ now' = now + d
           /\ Set(r, Settle(rq, [rq.g EXCEPT !.responseText = responseText],
                             AfterGenerate(prompt, responseText,
                                           processingTime, rq.g.userQuery)))
  /\ UNCHANGED <<Query, model, env, provider, db>>

\* model.generateContent (or response.text()) throws: the catch of the retry
\* loop starts the 2 s timer, or rethrows into the outer catch
GenerateFails(r) ==
  /\ req[r].pc = "generate"
  /\ \E message \in Gemini(provider).errors, d \in Gemini(provider).latencies :
       LET rq == req[r]
           failed == [rq EXCEPT !.g.errors = Append(@, message)]
       IN  /\ now' = now + d
           /\ IF ShouldRetry(message, rq.g.retries)
              THEN Set(r, [failed EXCEPT !.pc = "backoff",
                                         !.g.due = now + d + BackoffMs])
              ELSE Set(r, Settle(rq, failed.g,
                                 CatchGemini(message, rq.g.userQuery)))
  /\ UNCHANGED <<Query, model, env, provider, db>>

\* The loop left with no output at all: responseText is undefined, so
\* responseText.replace throws inside the try around JSON.parse, the fallback
\* object gets answer undefined, and the text measured is prompt + "undefined".
NoOutput(prompt, processingTime) ==
  Returned([answer |-> Undefined, canAnswer |-> Bool(TRUE),
            confidence |-> Num(DefaultConfidence), reasoning |-> Str(NotJsonNote)],
           processingTime, estimateTokens(Length(prompt) + Len("undefined")))

\* the timer fires: retries--, continue, and while (retries > 0) the next
\* model.generateContent
BackoffElapsed(r) ==
  /\ req[r].pc = "backoff"
  /\ now' = Max(now, req[r].g.due)
  /\ LET rq == req[r]
         g == [rq.g EXCEPT !.retries = @ - 1, !.waits = @ + 1]
     IN  IF g.retries > 0
         THEN Set(r, [rq EXCEPT !.pc = "generate",
                                !.g = [g EXCEPT !.attempts = @ + 1],
                                !.calls = @ + 1])
         ELSE Set(r, Settle(rq, g,
                NoOutput(BuildPrompt(g.documentText, g.userQuery),
                         Max(now, rq.g.due) - g.startTime)))
  /\ UNCHANGED <<Query, model, env, provider, db>>

\* --------------------------------------------------- POST /api/query
\* the catch of the route
QueryCatch(message) ==
  IF Includes(message, "Gemini")
  THEN Fail(503, "AI service unavailable", message)
  ELSE Fail(500, "Query processing failed", message)

\* the request arrives: input validation, then Document.findById
PostQuery(r) ==
  /\ req[r].pc = "idle" /\ req[r].route = "query"
  /\ LET rq == req[r]
         documentId == rq.body.documentId
         query == rq.body.query
     IN  IF documentId = "" \/ ~Truthy(query)
         THEN Set(r, [rq EXCEPT !.pc = "done",
                !.res = Fail(400, "Missing required fields",
                             <<"Both documentId and query are required">>)])
         ELSE IF Len(Trim(query.s)) < MinQueryLen
         THEN Set(r, [rq EXCEPT !.pc = "done",
                !.res = Fail(400, "Invalid query",
                             <<"Query must be at least 3 characters long">>)])
         ELSE Set(r, [rq EXCEPT !.pc = "findById"])
  /\ UNCHANGED <<Query, model, now, env, provider, db>>

\* findById settles: 404, the check of the extracted text, then the call of
\* processQueryWithGemini
QueryFindById(r) ==
  /\ req[r].pc = "findById" /\ req[r].route = "query"
  /\ LET rq == req[r]
         f == findById(rq.body.documentId)
         text == f.document.extractedText
         ready == ~f.threw /\ f.found /\ Len(Trim(text)) # 0
     IN  /\ IF f.threw
            THEN Set(r, [rq EXCEPT !.pc = "done", !.res = QueryCatch(f.message)])
            ELSE IF ~f.found
            THEN Set(r, [rq EXCEPT !.pc = "done",
                   !.res = Fail(404, "Document not found",
                                <<"The specified document does not exist">>)])
            ELSE IF text = <<>> \/ Len(Trim(text)) = 0
            THEN Set(r, [rq EXCEPT !.pc = "done", !.document = f.document,
                   !.res = Fail(400, "No text content",
                                <<"The document has no extractable text content">>)])
            ELSE Set(r, Enter([rq EXCEPT !.document = f.document,
                                         !.startTime = now],
                              text, rq.body.query.s))
         /\ initializeGemini(ready)
  /\ UNCHANGED <<Query, now, env, provider, db>>

\* processQueryWithGemini has settled: the route's catch, or new Query(...) and
\* the call of save()
QueryAfterGemini(r) ==
  /\ req[r].pc = "settled" /\ req[r].route = "query"
  /\ LET rq == req[r]
         aiResponse == rq.aiResponse
         processingTime == now - rq.startTime
     IN  IF aiResponse.threw
         THEN Set(r, [rq EXCEPT !.pc = "done", !.res = QueryCatch(aiResponse.message)])
         ELSE Set(r, [rq EXCEPT
                !.pc = "save",
                !.built = @ + 1,
                !.queryRecord =
                   NewQuery(<<r, rq.built + 1>>, rq.document._id, rq.body.query.s,
                            aiResponse.answer,
                            Or(aiResponse.confidence, Num(DefaultConfidence)),
                            processingTime, now)])
  /\ UNCHANGED <<Query, model, now, env, provider, db>>

\* what save() may settle to: <<>> for saved, or the message of its error
SaveOutcomes(rec) ==
  IF SchemaValid(rec) THEN {<<>>} \cup db.saveErrors ELSE {ValidationErrorMsg}

\* save() settles: the success response, or the route's catch
QuerySave(r) ==
  /\ req[r].pc = "save" /\ req[r].route = "query"
  /\ \E outcome \in SaveOutcomes(req[r].queryRecord) :
       LET rq == req[r]
           queryRecord == rq.queryRecord
           aiResponse == rq.aiResponse
       IN  IF outcome = <<>>
           THEN /\ Query' = Append(Query, queryRecord)
                /\ Set(r, [rq EXCEPT !.pc = "done",
                     !.res = Response(200, "", <<>>,
                        [id |-> queryRecord._id,
                         documentName |-> rq.document.originalName,
                         queryText |-> rq.body.query.s,
                         answer |-> aiResponse.answer,
                         canAnswer |-> aiResponse.canAnswer,
                         confidence |-> aiResponse.confidence,
                         reasoning |-> aiResponse.reasoning,
                         processingTime |-> queryRecord.processingTime,
                         tokensUsed |-> aiResponse.tokensUsed,
                         createdAt |-> queryRecord.createdAt],
                        <<>>)])
           ELSE /\ Query' = Query
                /\ Set(r, [rq EXCEPT !.pc = "done", !.res = QueryCatch(outcome)])
  /\ UNCHANGED <<model, now, env, provider, db>>

\* --------------------------------------------- POST /api/query/batch
\* an entry of results: pushed by the try block, or by its catch
Success(query, aiResponse) ==
  [query |-> query, answer |-> aiResponse.answer,
   confidence |-> aiResponse.confidence, error |-> <<>>, success |-> TRUE]
\* the entry of the catch tagged as a success
Failure_TaggedSuccess(query, message) ==
  [query |-> query, answer |-> Undefined,
   confidence |-> Undefined, error |-> message, success |-> TRUE]

Failure(query, message) ==
  [query |-> query, answer |-> Undefined,
   confidence |-> Undefined, error |-> message, success |-> FALSE]

\* the for loop from its head: the next processQueryWithGemini, or after the
\* last query the response
Loop(rq) ==
  LET items == rq.body.queries.items
  IN  IF rq.i > Len(items)
      THEN [rq EXCEPT !.pc = "done",
                      !.res = Response(200, "", <<>>, NoPayload, rq.results)]
      ELSE Enter(rq, rq.document.extractedText, items[rq.i])

\* the catch inside the loop ending the batch with the error
BatchCatch_Rethrow(rq, message) ==
  [rq EXCEPT !.pc = "done", !.res = Fail(500, "Batch processing failed", message)]

\* the catch inside the loop pushing nothing
BatchCatch_NoPush(rq, message) == Loop([rq EXCEPT !.i = @ + 1])

\* the catch inside the loop, then the next iteration
BatchCatch(rq, message) ==
  Loop([rq EXCEPT !.results = Append(@, Failure(rq.body.queries.items[rq.i], message)),
                  !.i = @ + 1])

\* the same without the test of the number of queries
PostBatch_AnyCount(r) ==
  /\ req[r].pc = "idle" /\ req[r].route = "batch"
  /\ LET rq == req[r]
     IN  IF rq.body.documentId = "" \/ rq.body.queries.t # "array"
         THEN Set(r, [rq EXCEPT !.pc = "done",
                !.res = Fail(400, "Invalid input",
                             <<"documentId and queries array are required">>)])
         ELSE Set(r, [rq EXCEPT !.pc = "findById"])
  /\ UNCHANGED <<Query, model, now, env, provider, db>>

\* the request arrives: input validation, then Document.findById
PostBatch(r) ==
  /\ req[r].pc = "idle" /\ req[r].route = "batch"
  /\ LET rq == req[r]
         documentId == rq.body.documentId
         given == rq.body.queries
     IN  IF documentId = "" \/ given.t # "array"
         THEN Set(r, [rq EXCEPT !.pc = "done",
                !.res = Fail(400, "Invalid input",
                             <<"documentId and queries array are required">>)])
         ELSE IF Len(given.items) = 0 \/ Len(given.items) > MaxQueries
         THEN Set(r, [rq EXCEPT !.pc = "done",
                !.res = Fail(400, "Invalid query count",
                             <<"Please provide between 1 and 10 queries">>)])
         ELSE Set(r, [rq EXCEPT !.pc = "findById"])
  /\ UNCHANGED <<Query, model, now, env, provider, db>>

\* findById settles: 404, or the first iteration of the loop
BatchFindById(r) ==
  /\ req[r].pc = "findById" /\ req[r].route = "batch"
  /\ LET rq == req[r]
         f == findById(rq.body.documentId)
     IN  /\ IF f.threw
            THEN Set(r, [rq EXCEPT !.pc = "done",
                   !.res = Fail(500, "Batch processing failed", f.message)])
            ELSE IF ~f.found
            THEN Set(r, [rq EXCEPT !.pc = "done",
                   !.res = Fail(404, "Document not found", <<>>)])
            ELSE Set(r, Loop([rq EXCEPT !.document = f.document, !.i = 1]))
         /\ initializeGemini(~f.threw /\ f.found)
  /\ UNCHANGED <<Query, now, env, provider, db>>

\* the same with save() not awaited: the entry is pushed and the loop goes on
\* while the record is still being saved
BatchAfterGemini_NoAwait(r) ==
  /\ req[r].pc = "settled" /\ req[r].route = "batch"
  /\ LET rq == req[r]
         aiResponse == rq.aiResponse
         more == rq.i < Len(rq.body.queries.items)
     IN  /\ IF aiResponse.threw
            THEN Set(r, BatchCatch(rq, aiResponse.message))
            ELSE Set(r, Loop([rq EXCEPT
                   !.built = @ + 1,
                   !.results = Append(@, Success(rq.body.queries.items[rq.i],
                                                 aiResponse)),
                   !.i = @ + 1]))
         /\ initializeGemini(more)
  /\ UNCHANGED <<Query, now, env, provider, db>>

\* processQueryWithGemini has settled: the loop's catch, or new Query(...) and
\* the call of save()
BatchAfterGemini(r) ==
  /\ req[r].pc = "settled" /\ req[r].route = "batch"
  /\ LET rq == req[r]
         aiResponse == rq.aiResponse
         more == rq.i < Len(rq.body.queries.items)
     IN  IF aiResponse.threw
         THEN /\ Set(r, BatchCatch(rq, aiResponse.message))
              /\ initializeGemini(more)
         ELSE /\ Set(r, [rq EXCEPT
                   !.pc = "save",
                   !.built = @ + 1,
                   !.queryRecord =
                      NewQuery(<<r, rq.built + 1>>, rq.document._id,
                               rq.body.queries.items[rq.i],
                               aiResponse.answer,
                               Or(aiResponse.confidence, Num(DefaultConfidence)),
                               aiResponse.processingTime, now)])
              /\ model' = model
  /\ UNCHANGED <<Query, now, env, provider, db>>

\* save() settles: results.push and the next iteration, or the loop's catch
BatchSave(r) ==
  /\ req[r].pc = "save" /\ req[r].route = "batch"
  /\ \E outcome \in SaveOutcomes(req[r].queryRecord) :
       LET rq == req[r]
           query == rq.body.queries.items[rq.i]
       IN  IF outcome = <<>>
           THEN /\ Query' = Append(Query, rq.queryRecord)
                /\ Set(r, Loop([rq EXCEPT
                       !.results = Append(@, Success(query, rq.aiResponse)),
                       !.i = @ + 1]))
           ELSE /\ Query' = Query
                /\ Set(r, BatchCatch(rq, outcome))
  /\ initializeGemini(req[r].i < Len(req[r].body.queries.items))
  /\ UNCHANGED <<now, env, provider, db>>

\* ------------------------- GET /api/upload/:id/recommended-questions
\* the request arrives: Document.findById(req.params.id)
GetRecommended(r) ==
  /\ req[r].pc = "idle" /\ req[r].route = "recommend"
  /\ Set(r, [req[r] EXCEPT !.pc = "findById"])
  /\ UNCHANGED <<Query, model, now, env, provider, db>>

\* findById settles: 500, 404, or the call of generateRecommendedQuestions up
\* to its first await. initializeGemini throwing without a key is caught by
\* the outer catch, which returns the default list to the route.
RecommendFindById(r) ==
  /\ req[r].pc = "findById" /\ req[r].route = "recommend"
  /\ LET rq == req[r]
         f == findById(rq.body.documentId)
     IN  /\ IF f.threw
            THEN Set(r, [rq EXCEPT !.pc = "done",
                   !.res = Fail(500, "Failed to generate recommended questions",
                                f.message)])
            ELSE IF ~f.found
            THEN Set(r, [rq EXCEPT !.pc = "done",
                   !.res = Fail(404, "Document not found", <<>>)])
            ELSE IF model = "unset" /\ ~env.GEMINI_API_KEY
            THEN Set(r, [rq EXCEPT !.pc = "done", !.document = f.document,
                   !.gr.errors = <<MissingKeyMsg>>,
                   !.questions = DefaultQuestions,
                   !.res = Response(200, "", <<>>, NoPayload, <<>>)])
            ELSE Set(r, [rq EXCEPT !.pc = "questions", !.document = f.document,
                                   !.calls = @ + 1])
         /\ initializeGemini(~f.threw /\ f.found)
  /\ UNCHANGED <<Query, now, env, provider, db>>

\* model.generateContent resolves: the inner try, then res.json
RecommendSucceeds(r) ==
  /\ req[r].pc = "questions"
  /\ \E responseText \in GeminiQuestions(provider), d \in Gemini(provider).latencies :
       /\ now' = now + d
       /\ Set(r, [req[r] EXCEPT !.pc = "done",
              !.gr.responseText = responseText,
              !.questions = recommendedQuestions(responseText),
              !.res = Response(200, "", <<>>, NoPayload, <<>>)])
  /\ UNCHANGED <<Query, model, env, provider, db>>

\* model.generateContent throws: the outer catch, then res.json
RecommendFails(r) ==
  /\ req[r].pc = "questions"
  /\ \E message \in Gemini(provider).errors, d \in Gemini(provider).latencies :
       /\ now' = now + d
       /\ Set(r, [req[r] EXCEPT !.pc = "done",
              !.gr.errors = Append(@, message),
              !.questions = DefaultQuestions,
              !.res = Response(200, "", <<>>, NoPayload, <<>>)])
  /\ UNCHANGED <<Query, model, env, provider, db>>

\* ------------------------------------------------------- the runs
NetworkErrorMsg == <<"MongoNetworkError: connection closed">>
Mongo == [saveErrors |-> {NetworkErrorMsg}]

\* all lists of at most n questions
RECURSIVE Lists(_)
Lists(n) ==
  IF n = 0 THEN {<<>>}
  ELSE LET shorter == Lists(n - 1)
       IN  shorter \cup
           { Append(l, q) : l \in {x \in shorter : Len(x) = n - 1},
                            q \in BatchQuestions }

\* the k-th question of a long list: each differs from the others
Numbered(k) == WhyQ \o [j \in 1..k |-> "?"]

\* the lists of 0 to MaxQueries + 1 questions
LongLists == { [k \in 1..n |-> Numbered(k)] : n \in 0..(MaxQueries + 1) }

QueryBodies ==
  { Body(d, q, NoQueries) :
      d \in {""} \cup DocumentIds,
      q \in {Undefined} \cup {Str(x) : x \in Questions} }

BatchBodies(lists) ==
  { Body(d, Undefined, qs) :
      d \in {""} \cup DocumentIds,
      qs \in {NoQueries, NotAnArray} \cup {Array(l) : l \in lists} }

Scenario(route, body, p) == [request |-> Request(route, body), provider |-> p]

\* GET /api/upload/:id/recommended-questions for every id
RecommendScenarios(p) ==
  {Scenario("recommend", Body(d, Undefined, NoQueries), p) : d \in DocumentIds}

\* one request of any route against every kind of document and input
MainScenarios ==
  {Scenario("query", b, "full") : b \in QueryBodies} \cup
  {Scenario("batch", b, "full") : b \in BatchBodies(Lists(MaxMixedBatch))} \cup
  RecommendScenarios("full")

\* one valid question, every provider output
ParseScenarios ==
  { Scenario("query", Body("doc-sky", Str(WhyQ), NoQueries), "parse"),
    Scenario("batch", Body("doc-sky", Undefined, Array(<<WhyQ>>)), "parse") } \cup
  RecommendScenarios("parse")

\* batches of every length from 0 to MaxQueries + 1, and the batches without
\* a document id or a list
BatchScenarios ==
  {Scenario("batch", Body(d, Undefined, Array(l)), "batch") :
     d \in {"doc-sky", "doc-gone"}, l \in LongLists} \cup
  {Scenario("batch", b, "batch") : b \in BatchBodies({<<WhyQ>>})} \cup
  {Scenario("query", Body("doc-sky", Str(WhyQ), NoQueries), "small")} \cup
  RecommendScenarios("small")

\* long documents and long questions on both routes
PromptScenarios ==
  {Scenario("query", Body(d._id, Str(q), NoQueries), "small") :
     d \in LongDocuments, q \in {WhyQ, LongQ}} \cup
  {Scenario("batch", Body(d._id, Undefined, Array(<<LongQ, WhyQ>>)), "small") :
     d \in LongDocuments} \cup
  RecommendScenarios("small")

\* the server has started, request 1 is about to arrive
InitOne(scenarios) ==
  /\ \E sc \in scenarios :
       /\ req = [r \in Requests |-> IF r = 1 THEN sc.request ELSE Unused]
       /\ provider = sc.provider
  /\ Query = <<>>
  /\ model = "unset"
  /\ now = 0
  /\ env \in {[GEMINI_API_KEY |-> k] : k \in BOOLEAN}
  /\ db = Mongo

\* what the requests in flight together may be: the first a batch or a single
\* query, the second a single query or a request for questions, any further
\* one a request for questions
ConcurrentRequests(r) ==
  CASE r = 1 ->
         { Request("batch", Body("doc-sky", Undefined, Array(<<WhyQ>>))),
           Request("query", Body("doc-sky", Str(WhyQ), NoQueries)) }
    [] r = 2 ->
         { Request("query", Body("doc-sky", Str(WhyQ), NoQueries)),
           Request("recommend", Body("doc-sky", Undefined, NoQueries)) }
    [] OTHER ->
         { Request("recommend", Body("doc-sky", Undefined, NoQueries)) }

\* the server has started, MaxRequests requests are about to arrive and their
\* handlers interleave at every await
InitConcurrent ==
  /\ req \in {f \in [Requests -> UNION {ConcurrentRequests(r) : r \in Requests}] :
                \A r \in Requests : f[r] \in ConcurrentRequests(r)}
  /\ provider = "busy"
  /\ Query = <<>>
  /\ model = "unset"
  /\ now = 0
  /\ env \in {[GEMINI_API_KEY |-> k] : k \in BOOLEAN}
  /\ db = [saveErrors |-> {}]

Init == InitOne(MainScenarios)
InitParse == InitOne(ParseScenarios)
InitBatch == InitOne(BatchScenarios)
InitPrompt == InitOne(PromptScenarios)

Next ==
  \E r \in Requests :
    \/ PostQuery(r)
    \/ QueryFindById(r)
    \/ QueryAfterGemini(r)
    \/ QuerySave(r)
    \/ PostBatch(r)
    \/ BatchFindById(r)
    \/ BatchAfterGemini(r)
    \/ BatchSave(r)
    \/ GenerateSucceeds(r)
    \/ GenerateFails(r)
    \/ BackoffElapsed(r)
    \/ GetRecommended(r)
    \/ RecommendFindById(r)
    \/ RecommendSucceeds(r)
    \/ RecommendFails(r)

Spec == Init /\ [][Next]_vars
SpecParse == InitParse /\ [][Next]_vars
SpecBatch == InitBatch /\ [][Next]_vars
SpecConcurrent == InitConcurrent /\ [][Next]_vars
SpecPrompt == InitPrompt /\ [][Next]_vars

\* ------------------------------------------------------ the claims
\* the provider's overload signal, as the retry loop reads it
TransientOverload(message) == Includes(message, "overloaded")

\* every model.generateContent of the call failed
FailedEveryAttempt(g) == g.attempts >= 1 /\ Len(g.errors) = g.attempts

\* the last model.generateContent of the call produced an output
GotOutput(g) == g.attempts >= 1 /\ Len(g.errors) = g.attempts - 1

OnlyOverloads(g) == \A i \in 1..Len(g.errors) : TransientOverload(g.errors[i])

\* the call ended on an overload error
EndedOverloaded(g) ==
  FailedEveryAttempt(g) /\ TransientOverload(g.errors[Len(g.errors)])

\* C1: when every attempt of a call of processQueryWithGemini fails with
\* transient overload, the provider is called exactly 3 times, never more, and
\* the call returns the degraded response (canAnswer false, confidence 0)
\* instead of throwing.
C1_OverloadThreeAttempts ==
  \A r \in Requests :
    LET rq == req[r]
        g == rq.g
    IN  (g.attempts >= 1 /\ OnlyOverloads(g)) =>
          /\ g.attempts <= 3
          /\ (rq.pc = "settled" /\ FailedEveryAttempt(g)) =>
                /\ g.attempts = 3
                /\ ~rq.aiResponse.threw
                /\ rq.aiResponse.canAnswer = Bool(FALSE)
                /\ rq.aiResponse.confidence = Num(0)

C1_Witness ==
  \E r \in Requests :
    /\ req[r].pc = "settled"
    /\ FailedEveryAttempt(req[r].g) /\ OnlyOverloads(req[r].g)
    /\ req[r].g.attempts = 3
    /\ ~req[r].aiResponse.threw

\* the error a fatal provider failure must surface as, by its class
NamedError(message) ==
  IF Includes(message, "API_KEY") THEN InvalidKeyError
  ELSE IF Includes(message, "quota") THEN QuotaError
  ELSE IF Includes(message, "SAFETY") THEN SafetyError
  ELSE <<"Gemini", " processing failed: ">> \o message

\* C2: a provider failure that is not transient overload is the last provider
\* call of its invocation, and the invocation ends by throwing the error that
\* names the class of the failure; it never returns an answer.
C2_FatalNotRetried ==
  \A r \in Requests :
    LET rq == req[r]
        g == rq.g
    IN  \A i \in 1..Len(g.errors) :
          ~TransientOverload(g.errors[i]) =>
            /\ i = Len(g.errors)
            /\ g.attempts = i
            /\ rq.pc \in {"settled", "done"}
            /\ rq.aiResponse.threw
            /\ rq.aiResponse.message = NamedError(g.errors[i])

C2_Witness ==
  \E r \in Requests :
    /\ req[r].pc = "settled"
    /\ req[r].g.errors = <<OverloadedMsg, QuotaMsg>>
    /\ req[r].aiResponse.threw

\* the degraded answer: the apology around the question, nothing of the model
ApologyFor(query) == Str(<<OverloadApology1>> \o query \o <<OverloadApology2>>)

\* C3 as claimed: whenever a call ends on an overload error, the single query
\* and the batch item end as a success with canAnswer false, confidence 0 and
\* the apology as answer.
C3_OverloadNeverFails ==
  \A r \in Requests :
    LET rq == req[r]
    IN  /\ (rq.route = "query" /\ rq.pc = "done" /\ Len(rq.history) = 1
            /\ EndedOverloaded(rq.history[1].g)) =>
              /\ rq.res.status = 200
              /\ rq.res.query.canAnswer = Bool(FALSE)
              /\ rq.res.query.confidence = Num(0)
              /\ rq.res.query.answer = ApologyFor(rq.body.query.s)
        /\ rq.route = "batch" =>
             \A i \in 1..Len(rq.results) :
               EndedOverloaded(rq.history[i].g) =>
                 /\ rq.results[i].success
                 /\ rq.results[i].confidence = Num(0)
                 /\ rq.results[i].answer = ApologyFor(rq.body.queries.items[i])

\* C3 amended: the same, unless save() of the record fails, and then the
\* failure reported is the store's error.
C3_OverloadFailsOnlyOnSave ==
  \A r \in Requests :
    LET rq == req[r]
    IN  /\ (rq.route = "query" /\ rq.pc = "done" /\ Len(rq.history) = 1
            /\ EndedOverloaded(rq.history[1].g)) =>
              \/ /\ rq.res.status = 200
                 /\ rq.res.query.canAnswer = Bool(FALSE)
                 /\ rq.res.query.confidence = Num(0)
                 /\ rq.res.query.answer = ApologyFor(rq.body.query.s)
              \/ /\ rq.res.status = 500
                 /\ rq.res.message \in db.saveErrors
        /\ rq.route = "batch" =>
             \A i \in 1..Len(rq.results) :
               EndedOverloaded(rq.history[i].g) =>
                 \/ /\ rq.results[i].success
                    /\ rq.results[i].confidence = Num(0)
                    /\ rq.results[i].answer = ApologyFor(rq.body.queries.items[i])
                 \/ /\ ~rq.results[i].success
                    /\ rq.results[i].error \in db.saveErrors

C3_Witness ==
  \E r \in Requests :
    /\ req[r].route = "batch" /\ req[r].pc = "done"
    /\ Len(req[r].results) = 2
    /\ EndedOverloaded(req[r].history[1].g)
    /\ req[r].results[1].success
    /\ ~EndedOverloaded(req[r].history[2].g)

\* what JSON.parse makes of the output a call received
DecodeOf(g) == JSONparse(Trim(StripFences(g.responseText.text)), g.responseText.json)

Populated(v) == v # Undefined

\* C4 as claimed: whatever output the provider returned, the call returns an
\* answer with answer, canAnswer, confidence and reasoning all populated, and
\* does not throw.
C4_ParsingTotal ==
  \A r \in Requests :
    LET rq == req[r]
    IN  (rq.pc = "settled" /\ GotOutput(rq.g)) =>
          /\ ~rq.aiResponse.threw
          /\ Populated(rq.aiResponse.answer)
          /\ Populated(rq.aiResponse.canAnswer)
          /\ Populated(rq.aiResponse.confidence)
          /\ Populated(rq.aiResponse.reasoning)

\* C5 as claimed: every answer a call returns has a confidence that is a
\* number in [0, 1].
C5_ConfidenceInRange ==
  \A r \in Requests :
    LET rq == req[r]
    IN  (rq.pc = "settled" /\ ~rq.aiResponse.threw) =>
          /\ rq.aiResponse.confidence.t = "number"
          /\ rq.aiResponse.confidence.n >= 0
          /\ rq.aiResponse.confidence.n <= 100

\* a field of the decoded object as the claim wants it returned
KeptOrDefault(decoded, default) ==
  IF decoded # Undefined THEN decoded ELSE default

\* C6 as claimed: when the output decodes to an object, every field present
\* in it is returned unchanged and every absent field gets its default:
\* the raw output, true, 0.7, the generic note.
C6_PresentFieldsKept ==
  \A r \in Requests :
    LET rq == req[r]
        d == DecodeOf(rq.g)
    IN  (rq.pc = "settled" /\ GotOutput(rq.g) /\ d.ok /\ d.value.k = "object") =>
          /\ ~rq.aiResponse.threw
          /\ rq.aiResponse.answer =
               KeptOrDefault(d.value.f.answer, Str(rq.g.responseText.text))
          /\ rq.aiResponse.canAnswer =
               KeptOrDefault(d.value.f.canAnswer, Bool(TRUE))
          /\ rq.aiResponse.confidence =
               KeptOrDefault(d.value.f.confidence, Num(70))
          /\ rq.aiResponse.reasoning =
               KeptOrDefault(d.value.f.reasoning, Str(<<"Analysis completed">>))

\* C7: when the output cannot be decoded after stripping the fences, the
\* answer returned is the raw output, canAnswer true, confidence 0.7 and the
\* fixed note.
C7_FallbackOnDecodeFailure ==
  \A r \in Requests :
    LET rq == req[r]
    IN  (rq.pc = "settled" /\ GotOutput(rq.g) /\ ~DecodeOf(rq.g).ok) =>
          /\ ~rq.aiResponse.threw
          /\ rq.aiResponse.answer = Str(rq.g.responseText.text)
          /\ rq.aiResponse.canAnswer = Bool(TRUE)
          /\ rq.aiResponse.confidence = Num(70)
          /\ rq.aiResponse.reasoning =
               Str(<<"Response generated but not in expected JSON format">>)

\* a fenced output that still fails to decode, and the answer is all of it
C7_Witness ==
  \E r \in Requests :
    /\ req[r].pc = "settled" /\ GotOutput(req[r].g)
    /\ req[r].g.responseText.text = <<Fence, JsonChunk, "text">>
    /\ req[r].aiResponse.answer = Str(<<Fence, JsonChunk, "text">>)

\* C8 as claimed: a question whose trimmed length is below 3 is rejected on
\* both routes, and no provider call is ever issued for it.
C8_ShortQuestionRejected ==
  \A r \in Requests :
    LET rq == req[r]
    IN  /\ rq.pc = "generate" => Len(Trim(rq.g.userQuery)) >= 3
        /\ (rq.route = "query" /\ rq.pc = "done" /\ rq.body.query.t = "string"
            /\ Len(Trim(rq.body.query.s)) < 3) => rq.res.status = 400
        /\ rq.route = "batch" =>
             \A i \in 1..Len(rq.results) :
               Len(Trim(rq.results[i].query)) < 3 => ~rq.results[i].success

\* C9 as claimed: the provider is called only for a document whose extracted
\* text is not blank, and a request against a blank document fails.
C9_BlankDocumentNeverQueried ==
  \A r \in Requests :
    LET rq == req[r]
    IN  /\ rq.pc = "generate" => Trim(rq.g.documentText) # <<>>
        /\ (rq.pc = "done" /\ rq.document # NoDocument
            /\ Trim(rq.document.extractedText) = <<>>) => rq.res.status = 400

\* what entry i of results must be, given how the call for question i settled
\* (and, when it returned, that the entry says whether save() succeeded)
OutcomeOf(entry, query, h) ==
  /\ entry.query = query
  /\ h.g.userQuery = query
  /\ h.aiResponse.threw =>
       ~entry.success /\ entry.error = h.aiResponse.message
  /\ ~h.aiResponse.threw =>
       \/ /\ entry.success
          /\ entry.answer = h.aiResponse.answer
          /\ entry.confidence = h.aiResponse.confidence
       \/ /\ ~entry.success
          /\ entry.error \in db.saveErrors \cup {ValidationErrorMsg}

\* C10: a batch of 1 to 10 questions against a document that resolves is
\* answered with one entry per question, entry i being the outcome of question
\* i; a batch of 0 or of more than 10 questions is rejected.
C10_BatchOrderAndCardinality ==
  \A r \in Requests :
    LET rq == req[r]
        items == rq.body.queries.items
    IN  (rq.route = "batch" /\ rq.pc = "done" /\ rq.body.queries.t = "array"
         /\ rq.body.documentId # "") =>
          /\ (Len(items) = 0 \/ Len(items) > 10) =>
                /\ rq.res.status = 400
                /\ rq.calls = 0 /\ rq.results = <<>>
          /\ (Len(items) \in 1..10 /\ rq.document # NoDocument) =>
                /\ rq.res.status = 200
                /\ Len(rq.res.results) = Len(items)
                /\ \A i \in 1..Len(items) :
                     OutcomeOf(rq.res.results[i], items[i], rq.history[i])

\* a full batch of 10 answered with successes and failures mixed
C10_Witness ==
  \E r \in Requests :
    /\ req[r].route = "batch" /\ req[r].pc = "done"
    /\ Len(req[r].body.queries.items) = 10
    /\ Len(req[r].res.results) = 10
    /\ req[r].res.results[1].success
    /\ ~req[r].res.results[2].success
    /\ req[r].res.results[10].success

\* C11: in a batch, when the processing of question i fails (its call of
\* processQueryWithGemini throws, or save() of its record fails), entry i is
\* tagged failure with the message of the error, every later question is still
\* given to processQueryWithGemini, and the batch ends as a success with one
\* entry per question.
C11_FailureIsolated ==
  \A r \in Requests :
    LET rq == req[r]
        items == rq.body.queries.items
    IN  (rq.route = "batch" /\ rq.history # <<>>) =>
          /\ \A i \in 1..Len(rq.results) :
               /\ rq.history[i].aiResponse.threw =>
                    rq.results[i] = Failure(items[i], rq.history[i].aiResponse.message)
               /\ ~rq.results[i].success =>
                    \/ rq.results[i].error = rq.history[i].aiResponse.message
                    \/ rq.results[i].error \in db.saveErrors \cup {ValidationErrorMsg}
          /\ rq.pc = "done" =>
               /\ rq.res.status = 200
               /\ rq.res.results = rq.results
               /\ Len(rq.results) = Len(items)
               /\ \A i \in 1..Len(items) : rq.history[i].g.userQuery = items[i]

\* three questions, the second one hits a credentials error: success, failure,
\* success
C11_Witness ==
  \E r \in Requests :
    /\ req[r].route = "batch" /\ req[r].pc = "done"
    /\ Len(req[r].body.queries.items) = 3
    /\ Len(req[r].history) = 3
    /\ req[r].history[2].g.errors = <<ApiKeyMsg>>
    /\ req[r].res.status = 200
    /\ req[r].res.results[1].success
    /\ req[r].res.results[2] = Failure(req[r].body.queries.items[2], InvalidKeyError)
    /\ req[r].res.results[3].success

\* the provider calls of the settled invocations of a request
RECURSIVE SettledAttempts(_)
SettledAttempts(history) ==
  IF history = <<>> THEN 0
  ELSE Head(history).g.attempts + SettledAttempts(Tail(history))

\* the provider calls a request has issued that have not yet resolved or thrown
InFlight(rq) ==
  rq.calls - SettledAttempts(rq.history) -
  (IF rq.pc \in {"generate", "backoff"} THEN Len(rq.g.errors) ELSE 0)

\* a record of request r for this question is in the collection
Persisted(r, query) ==
  \E k \in 1..Len(Query) : Query[k]._id[1] = r /\ Query[k].queryText = query

\* C12: within one batch the questions are processed one at a time in input
\* order: while the batch works on question i (a provider call in flight, a
\* backoff wait, save() pending), every question before i has its final
\* outcome, its record saved or its failure pushed, no later question has been
\* touched, and the batch has at most one provider call in flight.
C12_OneQuestionAtATime ==
  \A r \in Requests :
    LET rq == req[r]
        items == rq.body.queries.items
    IN  rq.route = "batch" =>
          /\ InFlight(rq) = (IF rq.pc = "generate" THEN 1 ELSE 0)
          /\ rq.pc \in {"generate", "backoff", "settled", "save"} =>
               /\ rq.i \in 1..Len(items)
               /\ rq.g.userQuery = items[rq.i]
               /\ Len(rq.results) = rq.i - 1
               /\ Len(rq.history) =
                    (IF rq.pc \in {"generate", "backoff"} THEN rq.i - 1 ELSE rq.i)
               /\ \A j \in 1..(rq.i - 1) :
                    /\ rq.results[j].query = items[j]
                    /\ rq.history[j].g.userQuery = items[j]
                    /\ rq.results[j].success => Persisted(r, items[j])
                    /\ ~rq.results[j].success => rq.results[j].error # <<>>

\* the provider call for question 3 is in flight, question 1 is answered and
\* saved, question 2 has failed
C12_Witness ==
  \E r \in Requests :
    /\ req[r].route = "batch" /\ req[r].pc = "generate"
    /\ req[r].i = 3
    /\ Len(req[r].results) = 2
    /\ req[r].results[1].success /\ Persisted(r, req[r].body.queries.items[1])
    /\ ~req[r].results[2].success

\* a batch that is invalid as a whole: no document id, no list of questions,
\* 0 or more than 10 of them, or an id that resolves to no document
StructurallyInvalid(body) ==
  \/ body.documentId = ""
  \/ body.queries.t # "array"
  \/ Len(body.queries.items) = 0
  \/ Len(body.queries.items) > 10
  \/ body.documentId \notin {d._id : d \in Documents}

\* C13: a structurally invalid batch fails as a whole before any work is done:
\* it never calls processQueryWithGemini or the provider, builds and saves no
\* record, and is answered with an error.
C13_InvalidBatchDoesNothing ==
  \A r \in Requests :
    LET rq == req[r]
    IN  (rq.route = "batch" /\ StructurallyInvalid(rq.body)) =>
          /\ rq.pc \in {"idle", "findById", "done"}
          /\ rq.calls = 0 /\ rq.built = 0
          /\ rq.history = <<>> /\ rq.results = <<>>
          /\ \A k \in 1..Len(Query) : Query[k]._id[1] # r
          /\ model = "unset"
          /\ rq.pc = "done" => rq.res.status \in {400, 404, 500}

\* a batch of 11 questions has been answered 400
C13_Witness ==
  \E r \in Requests :
    /\ req[r].route = "batch" /\ req[r].pc = "done"
    /\ Len(req[r].body.queries.items) = MaxQueries + 1
    /\ req[r].body.documentId \in {d._id : d \in Documents}
    /\ req[r].res.status = 400
    /\ req[r].calls = 0 /\ Query = <<>>

\* the entries of results tagged success, in order
SuccessEntries(results) == SelectSeq(results, LAMBDA e : e.success)

\* the records request r has saved, in the order it saved them
RecordsOf(r) == SelectSeq(Query, LAMBDA rec : rec._id[1] = r)

\* C14 as claimed: the record saved for an answered query carries the
\* confidence of the answer returned to the caller, the degraded answer's 0.0
\* included.
C14_ConfidenceSavedVerbatim ==
  \A r \in Requests :
    LET rq == req[r]
        saved == RecordsOf(r)
        answered == SuccessEntries(rq.results)
    IN  /\ (rq.route = "query" /\ rq.pc = "done" /\ rq.res.status = 200) =>
             \A k \in 1..Len(saved) :
               saved[k].confidence = rq.res.query.confidence
        /\ rq.route = "batch" =>
             \A k \in 1..Min(Len(saved), Len(answered)) :
               saved[k].confidence = answered[k].confidence

\* C15: exactly one record is saved per answered query: a single query
\* answered 200 has saved exactly one record, the one it names, and a single
\* query that failed has saved none; a batch has saved, at every moment and at
\* its end, as many records as it has entries tagged success, no record twice.
C15_OneRecordPerAnswer ==
  \A r \in Requests :
    LET rq == req[r]
        saved == RecordsOf(r)
    IN  /\ \A j, k \in 1..Len(saved) : saved[j]._id = saved[k]._id => j = k
        /\ rq.route = "query" =>
             /\ Len(saved) <= 1
             /\ (rq.pc = "done" /\ rq.res.status = 200) =>
                  Len(saved) = 1 /\ saved[1]._id = rq.res.query.id
             /\ (rq.pc = "done" /\ rq.res.status # 200) => Len(saved) = 0
        /\ rq.route = "batch" =>
             /\ Len(saved) = Len(SuccessEntries(rq.results))
             /\ (rq.pc = "done" /\ rq.res.status = 200) =>
                  Len(saved) = Len(SuccessEntries(rq.res.results))
             /\ (rq.pc = "done" /\ rq.res.status # 200) => Len(saved) = 0

\* a batch of two has ended with one success and one failure, and one record
C15_Witness ==
  \E r \in Requests :
    /\ req[r].route = "batch" /\ req[r].pc = "done"
    /\ Len(req[r].res.results) = 2
    /\ ~req[r].res.results[1].success /\ req[r].res.results[2].success
    /\ Len(RecordsOf(r)) = 1

\* what C16 says of the locals g of one invocation: k attempts have k - 1
\* completed waits, and every failure followed by another attempt is an overload
Spaced(g) ==
  /\ g.attempts \in 0..3
  /\ g.attempts >= 1 => g.waits = g.attempts - 1
  /\ g.attempts = 0 => g.waits = 0
  /\ \A i \in 1..Len(g.errors) :
       i < g.attempts => TransientOverload(g.errors[i])

\* C16: the backoff separates attempts and nothing else. An invocation that has
\* made k provider attempts (1 <= k <= 3) has waited k - 1 times, each wait
\* 2 seconds long, started by an overload failure and ended by the next
\* attempt; no wait follows the last attempt; and when attempt k succeeds
\* after k - 1 overload failures the answer returned is the one parsed from
\* the output of attempt k, not the degraded one. (The provider of these runs
\* answers at once, so the waits are all the time that passes.)
C16_BackoffBetweenAttempts ==
  \A r \in Requests :
    LET rq == req[r]
        g == rq.g
    IN  rq.route \in {"query", "batch"} =>
          /\ Spaced(g)
          /\ \A i \in 1..Len(rq.history) : Spaced(rq.history[i].g)
          /\ rq.pc = "generate" =>
               now - g.startTime = (g.attempts - 1) * BackoffMs
          /\ rq.pc = "backoff" =>
               /\ EndedOverloaded(g)
               /\ g.attempts < 3
               /\ g.due - g.startTime = g.attempts * BackoffMs
          /\ \A i \in 1..Len(rq.history) :
               LET h == rq.history[i]
               IN  (GotOutput(h.g) /\ OnlyOverloads(h.g)) =>
                     /\ h.aiResponse =
                          AfterGenerate(BuildPrompt(h.g.documentText, h.g.userQuery),
                                        h.g.responseText,
                                        h.g.waits * BackoffMs, h.g.userQuery)
                     /\ h.aiResponse.answer # ApologyFor(h.g.userQuery)

\* the third attempt succeeded after two overload failures and two waits
C16_Witness ==
  \E r \in Requests :
    /\ req[r].pc = "settled"
    /\ req[r].g.attempts = 3 /\ req[r].g.waits = 2
    /\ req[r].g.errors = <<OverloadedMsg, OverloadedMsg>>
    /\ req[r].aiResponse.answer = Str(<<"Blue">>)
    /\ req[r].aiResponse.processingTime = 2 * BackoffMs

\* C17 as claimed: when an invocation ends on the degraded answer, the
\* processing time it reports is the time elapsed since it started, which is
\* at least its two 2-second waits.
C17_DegradedReportsElapsed ==
  \A r \in Requests :
    LET rq == req[r]
        g == rq.g
    IN  (rq.pc = "settled" /\ EndedOverloaded(g) /\ ~rq.aiResponse.threw) =>
          /\ rq.aiResponse.processingTime = now - g.startTime
          /\ rq.aiResponse.processingTime >= 2 * BackoffMs

\* any step of the handler of request r
HandlerStep(r) ==
  \/ PostQuery(r) \/ QueryFindById(r) \/ QueryAfterGemini(r) \/ QuerySave(r)
  \/ PostBatch(r) \/ BatchFindById(r) \/ BatchAfterGemini(r) \/ BatchSave(r)
  \/ GenerateSucceeds(r) \/ GenerateFails(r) \/ BackoffElapsed(r)
  \/ GetRecommended(r) \/ RecommendFindById(r)
  \/ RecommendSucceeds(r) \/ RecommendFails(r)

\* C18: concurrent requests do not interfere through the retry logic. Every
\* invocation of processQueryWithGemini counts its own attempts: what it has
\* left is 3 minus its own waits, whatever the other requests have used, and
\* when all its attempts fail on overload it has made exactly 3. And no request
\* blocks another: whatever the others do, waiting in backoff included, a
\* request that has not been answered can take its next step.
C18_IndependentRetryBudgets ==
  \A r \in Requests :
    LET rq == req[r]
        g == rq.g
    IN  /\ rq.pc \in {"generate", "backoff"} =>
             /\ g.retries = RetryBudget - g.waits
             /\ g.attempts = g.waits + 1
        /\ \A i \in 1..Len(rq.history) :
             LET h == rq.history[i]
             IN  (FailedEveryAttempt(h.g) /\ OnlyOverloads(h.g)) =>
                   /\ h.g.attempts = 3
                   /\ h.aiResponse = OverloadedResponse(h.g.userQuery)
        /\ rq.pc \notin {"done", "unused"} => ENABLED HandlerStep(r)

\* one request has used two attempts and waits in backoff, its timer not yet
\* due; another, started after the first began to wait, has called the
\* provider with its budget whole and has been answered
C18_Witness ==
  \E r1, r2 \in Requests :
    /\ r1 # r2
    /\ req[r1].pc = "backoff" /\ req[r1].g.attempts = 2 /\ now < req[r1].g.due
    /\ req[r2].route = "query" /\ req[r2].pc = "done" /\ req[r2].res.status = 200
    /\ req[r2].startTime > req[r1].g.startTime
    /\ req[r2].g.attempts = 1 /\ GotOutput(req[r2].g)
    /\ req[r2].g.retries = RetryBudget

\* generateRecommendedQuestions has been called and has returned to the route
Recommended(rq) ==
  rq.route = "recommend" /\ rq.pc = "done" /\ rq.document # NoDocument

\* C19: generateRecommendedQuestions never propagates an error: once it is
\* called the route answers success; and for a provider failure (a missing
\* key included), an output that cannot be parsed and an output that decodes
\* to a value without a questions field, what it returns is the fixed list of
\* three generic questions.
C19_RecommendNeverThrows ==
  \A r \in Requests :
    LET rq == req[r]
        d == DecodeOf(rq.gr)
    IN  Recommended(rq) =>
          /\ rq.res.status = 200
          /\ rq.questions # Undefined
          /\ rq.gr.errors # <<>> => rq.questions = DefaultQuestions
          /\ (rq.calls = 1 /\ rq.gr.errors = <<>>) =>
               /\ ~d.ok => rq.questions = DefaultQuestions
               /\ (d.ok /\ d.value.k # "object") => rq.questions = DefaultQuestions
               /\ (d.ok /\ d.value.k = "object"
                   /\ d.value.f.questions = Undefined) =>
                    rq.questions = DefaultQuestions

\* the output was the JSON text null, on which reading .questions throws, and
\* the route has answered with the fixed list
C19_Witness ==
  \E r \in Requests :
    /\ Recommended(req[r])
    /\ req[r].gr.responseText.text = <<JsonChunk>>
    /\ req[r].gr.responseText.json.k = "null"
    /\ req[r].res.status = 200
    /\ req[r].questions = DefaultQuestions

\* C20 as claimed: for every provider output, what generateRecommendedQuestions
\* returns is a list of at least 1 and at most 3 strings.
C20_OneToThreeQuestions ==
  \A r \in Requests :
    LET rq == req[r]
    IN  (Recommended(rq) /\ rq.calls = 1 /\ rq.gr.errors = <<>>) =>
          /\ rq.questions.t = "array"
          /\ Len(rq.questions.s) \in 1..3
          /\ \A i \in 1..Len(rq.questions.s) : rq.questions.s[i].t = "string"

\* what C21 says of the prompt of one invocation: after the head come the
\* first 2000 characters of the document text (all of it when it is shorter),
\* then the ellipsis exactly when the text is longer than 2000 characters, then
\* the question in full, then the instructions
PromptAsClaimed(g) ==
  LET p == g.prompt
      d == g.documentText
      n == Min(Len(d), 2000)
      k == n + 2 + (IF Len(d) > 2000 THEN 1 ELSE 0)
  IN  /\ Len(p) = k + Len(g.userQuery) + 1
      /\ p[1] = PromptHead
      /\ SubSeq(p, 2, n + 1) = SubSeq(d, 1, n)
      /\ (p[n + 2] = "...") <=> (Len(d) > 2000)
      /\ p[k] = PromptQuestion
      /\ SubSeq(p, k + 1, k + Len(g.userQuery)) = g.userQuery
      /\ p[Len(p)] = PromptTail

\* C21: the prompt of every invocation that calls the provider holds the
\* document text truncated to its first 2000 characters, followed by the
\* ellipsis if and only if the text is longer than 2000 characters, and the
\* question in full whatever its length.
C21_PromptTruncation ==
  \A r \in Requests :
    LET rq == req[r]
    IN  rq.route \in {"query", "batch"} =>
          /\ rq.g.attempts >= 1 => PromptAsClaimed(rq.g)
          /\ \A i \in 1..Len(rq.history) :
               rq.history[i].g.attempts >= 1 => PromptAsClaimed(rq.history[i].g)

\* a provider call is in flight for a document of 2001 characters and a
\* question of more than 2000: the prompt has 2000 characters of the text, the
\* ellipsis and the whole question
C21_Witness ==
  \E r \in Requests :
    /\ req[r].pc = "generate"
    /\ Len(req[r].g.documentText) = PromptBudget + 1
    /\ req[r].g.userQuery = LongQ
    /\ req[r].g.prompt[PromptBudget + 1] = "x"
    /\ req[r].g.prompt[PromptBudget + 2] = "..."
    /\ Len(req[r].g.prompt) = PromptBudget + 4 + Len(LongQ)

====
